---- MODULE Spec2Model ----
(***************************************************************************)
(* A model of decryptic (src/main.py): the download command, the date      *)
(* range resolver, the puzzle builder, the Latin-1 sanitizer and the       *)
(* conversion log.                                                         *)
(*                                                                         *)
(* Values.  A calendar date is its ordinal: the number of days since the   *)
(* day before 1 January of BaseYear (datetime.date.toordinal, rebased).    *)
(* A text is a sequence of text units (one-character strings, and a few    *)
(* multi-character units standing for one tag or one emoji name).          *)
(* A raised exception is the record [tag |-> "raise", exc |-> name]; a     *)
(* returned value is [tag |-> "ok", val |-> value].                        *)
(***************************************************************************)
EXTENDS Integers, Sequences, FiniteSets, TLC

Ok(v) == [tag |-> "ok", val |-> v]

Raise(e) == [tag |-> "raise", exc |-> e]

IsOk(r) == r.tag = "ok"

\* F(v), with v evaluated once before F uses it.
Bind(v, F(_)) == CHOOSE x \in {F(y) : y \in {v}} : TRUE

(***************************************************************************)
(* The calendar (datetime.date, as main.py uses it).                       *)
(***************************************************************************)
BaseYear == 2024

\* The years of the modelled dates are BaseYear .. BaseYear + NumYears - 1.
NumYears == 2

Years == BaseYear .. (BaseYear + NumYears - 1)

IsLeap(y) == (y % 4 = 0) /\ ((y % 100 # 0) \/ (y % 400 = 0))

DaysInMonth(y, m) ==
  IF m = 2 THEN (IF IsLeap(y) THEN 29 ELSE 28)
  ELSE IF m \in {4, 6, 9, 11} THEN 30 ELSE 31

DaysInYear(y) == IF IsLeap(y) THEN 366 ELSE 365

RECURSIVE DaysBeforeYear(_)
DaysBeforeYear(y) ==
  IF y <= BaseYear THEN 0 ELSE DaysBeforeYear(y - 1) + DaysInYear(y - 1)

RECURSIVE DaysBeforeMonth(_, _)
DaysBeforeMonth(y, m) ==
  IF m <= 1 THEN 0 ELSE DaysBeforeMonth(y, m - 1) + DaysInMonth(y, m - 1)

\* date(y, m, d) as an ordinal.
ToOrdinal(y, m, d) == DaysBeforeYear(y) + DaysBeforeMonth(y, m) + d

ValidYMD(y, m, d) == m \in 1..12 /\ d >= 1 /\ d <= DaysInMonth(y, m)

RECURSIVE YearOf(_, _)
YearOf(n, y) == IF n <= DaysInYear(y) THEN <<y, n>> ELSE YearOf(n - DaysInYear(y), y + 1)

RECURSIVE MonthOf(_, _, _)
MonthOf(y, n, m) ==
  IF n <= DaysInMonth(y, m) THEN <<m, n>> ELSE MonthOf(y, n - DaysInMonth(y, m), m + 1)

\* date.isoformat(): the year, month and day fields of "YYYY-MM-DD".
IsoFormat(n) ==
  LET yn == YearOf(n, BaseYear)
      md == MonthOf(yn[1], yn[2], 1)
  IN  <<yn[1], md[1], md[2]>>

(***************************************************************************)
(* Date expressions.  A raw date expression is the numeric form "a/b/y",   *)
(* optionally followed by a time and a UTC offset; tz is the number of     *)
(* days the conversion to Australia/Sydney moves the calendar date by      *)
(* (0 for a naive expression).  Garbage is text the parser rejects.        *)
(***************************************************************************)
FieldValues == {1, 2, 13, 31}

TzShifts == {0, 1}

NumericDates == [form : {"numeric"}, a : FieldValues, b : FieldValues, y : Years, tz : TzShifts]

Garbage == [form |-> "garbage", a |-> 0, b |-> 0, y |-> 0, tz |-> 0]

\* The empty segment "".
Empty == [form |-> "empty", a |-> 0, b |-> 0, y |-> 0, tz |-> 0]

\* dateutil's resolution of three numeric fields a/b/y with yearfirst=False:
\* a is the day when it cannot be a month, or when day_first is set and b
\* can be a month; otherwise a is the month.
ResolveYMD(raw, day_first) ==
  IF raw.a > 12 \/ (day_first /\ raw.b <= 12)
  THEN [y |-> raw.y, m |-> raw.b, d |-> raw.a]
  ELSE [y |-> raw.y, m |-> raw.a, d |-> raw.b]

ParseSingleDate(raw, day_first) ==
  IF raw.form # "numeric" THEN Raise("ParserError")
  ELSE LET r == ResolveYMD(raw, day_first)
       IN  IF ~ValidYMD(r.y, r.m, r.d) THEN Raise("ParserError")
           ELSE Ok(ToOrdinal(r.y, r.m, r.d) + raw.tz)

\* [start + timedelta(days=offset) for offset in range(span)]
DateSpan(start, span) == [k \in 1..(IF span > 0 THEN span ELSE 0) |-> start + (k - 1)]

\* A mutant of the retry: only the end is parsed again, month first.
ResolveRetryEndOnly(start_raw, end_raw) ==
  LET s == ParseSingleDate(start_raw, TRUE)
      e == ParseSingleDate(end_raw, FALSE)
  IN  IF ~IsOk(s) THEN s
      ELSE IF ~IsOk(e) THEN e
      ELSE IF e.val < s.val THEN Raise("BadParameter")
      ELSE Ok(DateSpan(s.val, (e.val - s.val) + 1))

\* The month-first retry of a range (the except AssertionError branch).
ResolveRetry(start_raw, end_raw) ==
  LET s == ParseSingleDate(start_raw, FALSE)
      e == ParseSingleDate(end_raw, FALSE)
  IN  IF ~IsOk(s) THEN s
      ELSE IF ~IsOk(e) THEN e
      ELSE IF e.val < s.val THEN Raise("BadParameter")
      ELSE Ok(DateSpan(s.val, (e.val - s.val) + 1))

\* The range branch: start and end are the two segments of the split at the
\* first ":", stripped.
ResolveRange(start_raw, end_raw) ==
  IF start_raw = Empty \/ end_raw = Empty THEN Raise("BadParameter")
  ELSE LET s == ParseSingleDate(start_raw, TRUE)
           e == ParseSingleDate(end_raw, TRUE)
       IN  IF ~IsOk(s) THEN s
           ELSE IF ~IsOk(e) THEN e
           ELSE IF e.val >= s.val THEN Ok(DateSpan(s.val, (e.val - s.val) + 1))
           ELSE ResolveRetry(start_raw, end_raw)

\* A date token: kind "none" (no token: today), "single" (start is the
\* expression) or "range" (start and end are the two segments).
NoToken == [kind |-> "none", start |-> Empty, end |-> Empty]

SingleToken(raw) == [kind |-> "single", start |-> raw, end |-> Empty]

RangeToken(s, e) == [kind |-> "range", start |-> s, end |-> e]

ResolveDates(token, now) ==
  IF token.kind = "none" THEN Ok(<<now>>)
  ELSE IF token.kind = "range" THEN ResolveRange(token.start, token.end)
  ELSE LET p == ParseSingleDate(token.start, TRUE)
       IN  IF IsOk(p) THEN Ok(<<p.val>>) ELSE p

(***************************************************************************)
(* Text.  Optional[str] is [none |-> TRUE, s |-> <<>>] for None and         *)
(* [none |-> FALSE, s |-> units] for a string.  The input units are the    *)
(* letter "a", the space, the dash, the tag "<p>", the letter e with an    *)
(* acute accent ("U+00E9") and the grinning-face emoji ("U+1F600").        *)
(***************************************************************************)
None == [none |-> TRUE, s |-> <<>>]

Str(units) == [none |-> FALSE, s |-> units]

\* Python's truth value of an Optional[str].
Truthy(text) == ~text.none /\ text.s # <<>>

Whitespace == {" ", "\n"}

Tags == {"<p>"}

InputUnits == {"a", " ", "-", "<p>", "U+00E9", "U+1F600"}

\* Units of plain ASCII text: no markup, no emoji, nothing to transliterate.
AsciiUnits == {"a", " ", "-"}

RECURSIVE LStrip(_)
LStrip(s) == IF s # <<>> /\ Head(s) \in Whitespace THEN LStrip(Tail(s)) ELSE s

RECURSIVE RStrip(_)
RStrip(s) ==
  IF s # <<>> /\ s[Len(s)] \in Whitespace THEN RStrip(SubSeq(s, 1, Len(s) - 1)) ELSE s

\* str.strip()
Strip(s) == RStrip(LStrip(s))

\* html2text's escape of a data chunk: a dash that opens the chunk (after
\* optional whitespace) and is followed by whitespace or a dash gets a
\* backslash, so that Markdown does not read it as a list item.
EscapeMd(data) ==
  LET lead == Len(data) - Len(LStrip(data))
  IN  IF lead + 2 <= Len(data) /\ data[lead + 1] = "-"
         /\ data[lead + 2] \in (Whitespace \cup {"-"})
      THEN SubSeq(data, 1, lead) \o <<"\\">> \o SubSeq(data, lead + 1, Len(data))
      ELSE data

\* re.sub(r"\s+", " ", data)
RECURSIVE CollapseWs(_)
CollapseWs(s) ==
  IF s = <<>> THEN <<>>
  ELSE IF Head(s) \in Whitespace
       THEN <<" ">> \o CollapseWs(LStrip(s))
       ELSE <<Head(s)>> \o CollapseWs(Tail(s))

\* html2text's output of one data chunk.  h is the writer's state: out (the
\* text so far), space (a space is pending), start (nothing written yet),
\* p_p (newlines pending after a block tag).
OutCollapsed(h, d0) ==
  LET lead  == d0 # <<>> /\ Head(d0) = " "
      data  == IF lead THEN Tail(d0) ELSE d0
      space == h.space \/ lead
  IN  IF data = <<>> THEN [h EXCEPT !.space = space]
      ELSE LET p_p == IF h.start THEN 0 ELSE h.p_p
               sp  == IF h.start \/ p_p > 0 THEN FALSE ELSE space
               nl  == [k \in 1..p_p |-> "\n"]
           IN  [out   |-> h.out \o nl \o (IF sp THEN <<" ">> ELSE <<>>) \o data,
                space |-> FALSE, start |-> FALSE, p_p |-> 0]

OutData(h, chunk) == Bind(CollapseWs(EscapeMd(chunk)), LAMBDA d0 : OutCollapsed(h, d0))

\* The units of s before its first tag, and what follows that tag.
RECURSIVE UntilTag(_)
UntilTag(s) ==
  IF s = <<>> THEN [chunk |-> <<>>, tag |-> FALSE, rest |-> <<>>]
  ELSE IF Head(s) \in Tags THEN [chunk |-> <<>>, tag |-> TRUE, rest |-> Tail(s)]
  ELSE Bind(UntilTag(Tail(s)), LAMBDA r : [r EXCEPT !.chunk = <<Head(s)>> \o r.chunk])

RECURSIVE Feed(_, _)
Feed(h, s) ==
  Bind(UntilTag(s), LAMBDA u :
    Bind(OutData(h, u.chunk), LAMBDA h1 :
      IF u.tag THEN Feed([h1 EXCEPT !.p_p = 2], u.rest) ELSE h1))

\* html2text(text, bodywidth=0): tags are dropped (a block tag leaves a
\* blank line), whitespace runs collapse, the text ends with a blank line.
Html2Text(s) ==
  Feed([out |-> <<>>, space |-> FALSE, start |-> TRUE, p_p |-> 0], s).out \o <<"\n", "\n">>

\* emoji.demojize: an emoji becomes its name between colons.
RECURSIVE Demojize(_)
Demojize(s) ==
  IF s = <<>> THEN <<>>
  ELSE (IF Head(s) = "U+1F600" THEN <<":grinning_face:">> ELSE <<Head(s)>>)
       \o Demojize(Tail(s))

\* unidecode: a non-ASCII character becomes its nearest ASCII spelling.
RECURSIVE Unidecode(_)
Unidecode(s) ==
  IF s = <<>> THEN <<>>
  ELSE (IF Head(s) = "U+00E9" THEN <<"e">> ELSE <<Head(s)>>) \o Unidecode(Tail(s))

\* A conversion record of conversion_log.
ConversionRecord(original, sanitized, context) ==
  [original |-> original, sanitized |-> sanitized, context |-> context]

\* unidecode(emoji.demojize(html2text(text, bodywidth=0))).strip()
Sanitized(s) ==
  Bind(Html2Text(s), LAMBDA h :
    Bind(Demojize(h), LAMBDA d :
      Bind(Unidecode(d), LAMBDA u :
        Strip(u))))

\* A mutant of _sanitize_for_latin1: every non-empty text is logged.
SanitizeLoggingAlways(text, context, log) ==
  IF ~Truthy(text) THEN [ret |-> text, log |-> log]
  ELSE Bind(Sanitized(text.s), LAMBDA sanitized :
         [ret |-> Str(sanitized),
          log |-> Append(log, ConversionRecord(text.s, sanitized, context))])

\* _sanitize_for_latin1(text, context), on the conversion log `log`: the
\* value returned and the log afterwards.
SanitizeForLatin1(text, context, log) ==
  IF ~Truthy(text) THEN [ret |-> text, log |-> log]
  ELSE Bind(Sanitized(text.s), LAMBDA sanitized :
         [ret |-> Str(sanitized),
          log |-> IF sanitized # text.s
                  THEN Append(log, ConversionRecord(text.s, sanitized, context))
                  ELSE log])

(***************************************************************************)
(* Crossword types and the case conversions of their names.                *)
(***************************************************************************)
CRYPTIC == <<"c", "r", "y", "p", "t", "i", "c">>

MINI == <<"m", "i", "n", "i">>

QUICK == <<"q", "u", "i", "c", "k">>

\* class CrosswordType: the values of its members.
CrosswordType == {CRYPTIC, MINI, QUICK}

LowerLetters == <<"c", "i", "k", "m", "n", "p", "q", "r", "t", "u", "y">>

UpperLetters == <<"C", "I", "K", "M", "N", "P", "Q", "R", "T", "U", "Y">>

IndexIn(letters, c) ==
  IF \E k \in 1..Len(letters) : letters[k] = c
  THEN CHOOSE k \in 1..Len(letters) : letters[k] = c
  ELSE 0

UpperChar(c) == IF IndexIn(LowerLetters, c) > 0 THEN UpperLetters[IndexIn(LowerLetters, c)] ELSE c

LowerChar(c) == IF IndexIn(UpperLetters, c) > 0 THEN LowerLetters[IndexIn(UpperLetters, c)] ELSE c

\* str.upper()
Upper(s) == [k \in 1..Len(s) |-> UpperChar(s[k])]

\* str.capitalize()
Capitalize(s) == [k \in 1..Len(s) |-> IF k = 1 THEN UpperChar(s[k]) ELSE LowerChar(s[k])]

(***************************************************************************)
(* Crossword.to_puzzle.  A Crossword object is                             *)
(* [crossword_type, date, state, crossword_data]: state is "fetched"       *)
(* while it holds its response and "extracted" once crossword_data is set; *)
(* crossword_data is [none |-> TRUE, ...] for a JSON document without the  *)
(* crosswords.crossword path, else [none |-> FALSE, rec |-> the record].   *)
(***************************************************************************)
\* date.weekday() (0 is Monday), from the proleptic Gregorian ordinal.
Weekday(n) ==
  LET b == BaseYear - 1
  IN  ((365 * b + (b \div 4) - (b \div 100) + (b \div 400)) + n + 6) % 7

\* date.strftime("%A, %B %d, %Y"): the weekday, month, day and year fields.
ReadableDate(n) == <<Weekday(n), IsoFormat(n)[2], IsoFormat(n)[3], IsoFormat(n)[1]>>

\* assert self.crossword_data["date"] == self.date.isoformat()
DateMatches(cw, data) == data.date = IsoFormat(cw.date)

\* A mutant of the type check: the record's type is uppercased too.
TypeMatchesAnyCase(cw, data) == Upper(cw.crossword_type) = Upper(data.type)

\* assert self.crossword_type.value.upper() == self.crossword_data["type"]
TypeMatches(cw, data) == Upper(cw.crossword_type) = data.type

\* "".join(["".join(row) for row in grid])
RECURSIVE JoinRows(_)
JoinRows(grid) == IF grid = <<>> THEN <<>> ELSE Head(grid) \o JoinRows(Tail(grid))

\* "".join(c if c == "." else "-" for c in puzzle.solution)
Fill(solution) == [k \in 1..Len(solution) |-> IF solution[k] = "." THEN "." ELSE "-"]

\* A mutant of the clue list: the down clues come first.
ClueListDownFirst(data) == data.clues.down \o data.clues.across

\* clues["across"] + clues["down"]
ClueList(data) == data.clues.across \o data.clues.down

\* One step of a stable sort: x goes after every clue whose position is not
\* greater than its own.
RECURSIVE InsertByPosition(_, _)
InsertByPosition(sorted, x) ==
  IF sorted = <<>> THEN <<x>>
  ELSE IF Head(sorted).position <= x.position
       THEN Bind(Tail(sorted), LAMBDA rest : <<Head(sorted)>> \o InsertByPosition(rest, x))
       ELSE <<x>> \o sorted

\* sorted(clue_list, key=lambda x: x["position"]): Python's sort is stable.
RECURSIVE SortedByPosition(_)
SortedByPosition(l) ==
  IF l = <<>> THEN <<>>
  ELSE Bind(SortedByPosition(SubSeq(l, 1, Len(l) - 1)),
            LAMBDA sorted : InsertByPosition(sorted, l[Len(l)]))

\* [_sanitize_for_latin1(clue["question"], context=...) for clue in clues]:
\* the sanitized questions and the conversion log afterwards.
RECURSIVE SanitizeClues(_, _, _)
SanitizeClues(clues, context, log) ==
  IF clues = <<>> THEN [clues |-> <<>>, log |-> log]
  ELSE Bind(SanitizeForLatin1(Head(clues).question, context, log), LAMBDA one :
         Bind(SanitizeClues(Tail(clues), context, one.log), LAMBDA rest :
           [clues |-> <<one.ret>> \o rest.clues, log |-> rest.log]))

\* "\n".join(filter(None, notes)) or None
JoinNotes(special, summary) ==
  IF Truthy(special) /\ Truthy(summary) THEN Str(special.s \o <<"\n">> \o summary.s)
  ELSE IF Truthy(special) THEN Str(special.s)
  ELSE IF Truthy(summary) THEN Str(summary.s)
  ELSE None

NoPuzzle == [built |-> FALSE]

\* What to_puzzle leaves when it raises exception e: no puzzle, the log as
\* it was.
BuildFails(e, log) == [tag |-> "raise", exc |-> e, puzzle |-> NoPuzzle, log |-> log]

\* The puzzle of lines 130 to 166, from the title, the solution, the
\* sanitized clues and the sanitized notes.
PuzzleOf(data, title, solution, clues, notes) ==
  [tag |-> "ok", exc |-> "",
   puzzle |-> [built     |-> TRUE,
               copyright |-> "The Sydney Morning Herald",
               title     |-> title,
               author    |-> <<"Created by ">> \o data.author,
               width     |-> Len(data.grid[1]),
               height    |-> Len(data.grid),
               solution  |-> solution,
               fill      |-> Fill(solution),
               clues     |-> clues.clues,
               notes     |-> notes.ret],
   log |-> notes.log]

\* The body of to_puzzle after its checks (lines 138 to 166).
BuildPuzzle(cw, data, log) ==
  Bind([type |-> Capitalize(data.type), date |-> ReadableDate(cw.date)], LAMBDA title :
    Bind(SortedByPosition(ClueList(data)), LAMBDA sorted_clues :
      Bind(SanitizeClues(sorted_clues, [field |-> "clue", title |-> title], log),
           LAMBDA clues :
        Bind(SanitizeForLatin1(JoinNotes(data.specialInstructions, data.summary),
                               [field |-> "notes", title |-> title], clues.log),
             LAMBDA notes :
          Bind(JoinRows(data.grid), LAMBDA solution :
            PuzzleOf(data, title, solution, clues, notes))))))

\* Crossword.to_puzzle(), on the conversion log `log`.
ToPuzzle(cw, log) ==
  IF cw.state # "extracted" THEN BuildFails("RuntimeError", log)
  ELSE IF cw.crossword_data.none THEN BuildFails("TypeError", log)
  ELSE LET data == cw.crossword_data.rec
       IN  IF ~DateMatches(cw, data) THEN BuildFails("AssertionError", log)
           ELSE IF ~TypeMatches(cw, data) THEN BuildFails("AssertionError", log)
           ELSE IF data.grid = <<>> THEN BuildFails("IndexError", log)
           ELSE BuildPuzzle(cw, data, log)

(***************************************************************************)
(* Crossword.extract_crossword.  A response is [status, body, rec]: body   *)
(* is "empty" (no content), "noscript" (no script matches the pattern),    *)
(* "badjson" (the captured text is not JSON), "nopath" (the JSON has no    *)
(* crosswords.crossword) or "record" (rec is the record found there).      *)
(***************************************************************************)
NullRecord == [date |-> <<0, 0, 0>>, type |-> <<>>, author |-> <<>>, grid |-> <<>>,
               clues |-> [across |-> <<>>, down |-> <<>>],
               specialInstructions |-> None, summary |-> None]

NoData == [none |-> TRUE, rec |-> NullRecord]

\* extract_crossword on a response: the crossword_data it sets, or the
\* exception it raises.
ExtractCrossword(response) ==
  IF response.status >= 400 THEN Raise("HTTPError")
  ELSE IF response.body = "empty" THEN Raise("ValueError")
  ELSE IF response.body = "noscript" THEN Raise("RuntimeError")
  ELSE IF response.body = "badjson" THEN Raise("JSONDecodeError")
  ELSE IF response.body = "nopath" THEN Ok(NoData)
  ELSE Ok([none |-> FALSE, rec |-> response.rec])

(***************************************************************************)
(* _ensure_output.  The requested path is [exists, is_dir, suffix].  The   *)
(* result is the target root, [kind |-> "dir"] or [kind |-> "file"], and   *)
(* whether the path itself is the one predefined destination.              *)
(***************************************************************************)
Outputs ==
  { [exists |-> TRUE,  is_dir |-> TRUE,  suffix |-> FALSE],
    [exists |-> TRUE,  is_dir |-> FALSE, suffix |-> TRUE],
    [exists |-> FALSE, is_dir |-> FALSE, suffix |-> TRUE] }

EnsureOutput(requested, combo_count) ==
  IF combo_count > 1
  THEN IF requested.exists /\ ~requested.is_dir THEN Raise("BadParameter")
       ELSE Ok([kind |-> "dir", predefined |-> FALSE])
  ELSE IF requested.suffix THEN Ok([kind |-> "file", predefined |-> TRUE])
  ELSE IF requested.exists /\ ~requested.is_dir THEN Raise("FileExistsError")
  ELSE Ok([kind |-> "dir", predefined |-> FALSE])

(***************************************************************************)
(* _write_conversion_log.  The log file is the sequence of the blocks      *)
(* written to it; a block is the sequence of its records' lines.           *)
(***************************************************************************)
\* A mutant of _write_conversion_log: the accumulator is not cleared.
WriteConversionLogNoClear(log, file, open_ok) ==
  IF log = <<>> THEN [tag |-> "ok", log |-> log, file |-> file]
  ELSE IF ~open_ok THEN [tag |-> "raise", log |-> log, file |-> file]
  ELSE [tag |-> "ok", log |-> log, file |-> Append(file, log)]

\* _write_conversion_log on the accumulator `log` and the file `file`;
\* open_ok is whether open(log_file, "a") succeeds.
WriteConversionLog(log, file, open_ok) ==
  IF log = <<>> THEN [tag |-> "ok", log |-> log, file |-> file]
  ELSE IF ~open_ok THEN [tag |-> "raise", log |-> log, file |-> file]
  ELSE [tag |-> "ok", log |-> <<>>, file |-> Append(file, log)]

(***************************************************************************)
(* The state.                                                              *)
(*   download's run: pc, types, date_token, today, output, combinations,   *)
(*   target, crossword_objs, fetched (the GETs issued, in order), attempts *)
(*   (the items whose processing began, in order), reported (the items     *)
(*   whose failure was echoed), saved (the destinations written), current  *)
(*   (the loop's cw after its step, with what the step raised or built),   *)
(*   error (the exception that ended the run), flushes (the calls of       *)
(*   _write_conversion_log).                                               *)
(*   The module's global: conversion_log; the file system: log_file.       *)
(*   Single calls: resolved (what _resolve_dates returned), call (the last *)
(*   _sanitize_for_latin1 call), appended (every record ever appended to   *)
(*   conversion_log, in order).                                            *)
(***************************************************************************)
VARIABLES pc, types, date_token, today, output, combinations, target,
          crossword_objs, fetched, attempts, reported, saved, current, error,
          flushes, conversion_log, log_file, resolved, call, appended

vars == <<pc, types, date_token, today, output, combinations, target,
          crossword_objs, fetched, attempts, reported, saved, current, error,
          flushes, conversion_log, log_file, resolved, call, appended>>

\* The longest list of types on the command line.
MaxTypes == 2

RECURSIVE SeqsUpTo(_, _)
SeqsUpTo(S, n) ==
  IF n = 0 THEN {<<>>}
  ELSE LET shorter == SeqsUpTo(S, n - 1)
       IN  shorter \cup {Append(q, x) : q \in {r \in shorter : Len(r) = n - 1}, x \in S}

\* The types named on the modelled command lines (QUICK is only ever the
\* type of a record the server returns for another type).
RequestedTypes == {CRYPTIC, MINI}

TypeLists == SeqsUpTo(RequestedTypes, MaxTypes)

Range(f) == {f[k] : k \in DOMAIN f}

\* A mutant of the choice of types: the list as given, duplicates kept.
TypeOrdersAsGiven(list) == {IF list = <<>> THEN <<CRYPTIC>> ELSE list}

\* set(types or [CrosswordType.CRYPTIC]), in each order its iteration may
\* take (the order of a set of str-valued enum members is not fixed).
TypeOrders(list) ==
  LET chosen == IF list = <<>> THEN {CRYPTIC} ELSE Range(list)
  IN  {p \in [1..Cardinality(chosen) -> chosen] : Range(p) = chosen}

\* [(c_type, current_date) for c_type in chosen_types for current_date in
\* resolved_dates]
Combinations(order, dates) ==
  [k \in 1..(Len(order) * Len(dates)) |->
     [crossword_type |-> order[((k - 1) \div Len(dates)) + 1],
      date           |-> dates[((k - 1) % Len(dates)) + 1]]]

NumericDate(a, b) == [form |-> "numeric", a |-> a, b |-> b, y |-> BaseYear, tz |-> 0]

\* The date tokens of the modelled runs: none, one date, two days, a range
\* inverted under both orders, a range with no end, an unreadable date.
DownloadTokens ==
  { NoToken,
    SingleToken(NumericDate(13, 2)),
    RangeToken(NumericDate(1, 2), NumericDate(2, 2)),
    RangeToken(NumericDate(13, 2), NumericDate(1, 2)),
    RangeToken(NumericDate(1, 2), Empty),
    SingleToken(Garbage) }

\* datetime.now(SYDNEY_TZ).date(), on the day of the run.
Todays == {ToOrdinal(BaseYear, 2, 28)}

\* What the server may answer to GET /{type}/{date}.
SampleRecord(t, d) ==
  [date |-> IsoFormat(d), type |-> Upper(t), author |-> <<"D", "A">>,
   grid |-> << <<"A", ".">>, <<"B", "C">> >>,
   clues |-> [across |-> <<[position |-> 1, question |-> Str(<<"U+00E9">>)]>>,
              down   |-> <<[position |-> 1, question |-> Str(<<"a">>)]>>],
   specialInstructions |-> None, summary |-> Str(<<"a">>)]

ServerRecords(t, d) ==
  { [SampleRecord(t, d) EXCEPT !.type = ty, !.date = IsoFormat(dd)] :
      ty \in {Upper(t), t, Upper(IF t = MINI THEN QUICK ELSE MINI)}, dd \in {d, d + 1} }

ServerResponses(t, d) ==
  { [status |-> 404, body |-> "empty", rec |-> NullRecord] }
  \cup { [status |-> 200, body |-> b, rec |-> NullRecord] :
           b \in {"empty", "noscript", "badjson", "nopath"} }
  \cup { [status |-> 200, body |-> "record", rec |-> r] : r \in ServerRecords(t, d) }

NoCurrent == [item |-> 0]

\* The destination of combination k: the predefined path, or
\* target_root/<type>/<date>-<type>.puz.
Destination(tgt, combo) ==
  [predefined |-> tgt.predefined, type |-> combo.crossword_type,
   date |-> IsoFormat(combo.date)]

\* A mutant of the handler: only the errors of extraction are caught.
CaughtExtractionOnly(exc) == exc \in {"HTTPError", "ValueError", "RuntimeError"}

\* except Exception: every exception a step raises is an Exception.
Caught(exc) == exc \in {"HTTPError", "ValueError", "RuntimeError", "JSONDecodeError",
                        "TypeError", "AssertionError", "IndexError", "OSError"}

Init ==
  /\ pc = "start"
  /\ types \in TypeLists
  /\ date_token \in DownloadTokens
  /\ today \in Todays
  /\ output \in Outputs
  /\ combinations = <<>>
  /\ target = [kind |-> "none", predefined |-> FALSE]
  /\ crossword_objs = <<>>
  /\ fetched = <<>>
  /\ attempts = <<>>
  /\ reported = {}
  /\ saved = {}
  /\ current = NoCurrent
  /\ error = ""
  /\ flushes = 0
  /\ conversion_log = <<>>
  /\ log_file = <<>>
  /\ resolved = Ok(<<>>)
  /\ call = [n |-> 0]
  /\ appended = <<>>

\* A mutant of the start of download: the first GET is issued before the
\* output path is checked.
ResolveCombinationsFetchingFirst ==
  /\ pc = "start"
  /\ LET r == ResolveDates(date_token, today)
     IN  IF ~IsOk(r)
         THEN /\ pc' = "aborted"
              /\ error' = r.exc
              /\ UNCHANGED <<combinations, target, fetched>>
         ELSE \E order \in TypeOrders(types) :
                LET combos == Combinations(order, r.val)
                    e      == EnsureOutput(output, Len(combos))
                IN  /\ fetched' = <<combos[1]>>
                    /\ IF ~IsOk(e)
                       THEN /\ pc' = "aborted"
                            /\ error' = e.exc
                            /\ UNCHANGED <<combinations, target>>
                       ELSE /\ pc' = "fetch"
                            /\ combinations' = combos
                            /\ target' = e.val
                            /\ error' = ""
  /\ UNCHANGED <<types, date_token, today, output, crossword_objs, attempts, reported,
                 saved, current, flushes, conversion_log, log_file, resolved, call,
                 appended>>

\* download, lines 263 to 271: the dates, the combinations, the output path.
ResolveCombinations ==
  /\ pc = "start"
  /\ LET r == ResolveDates(date_token, today)
     IN  IF ~IsOk(r)
         THEN /\ pc' = "aborted"
              /\ error' = r.exc
              /\ UNCHANGED <<combinations, target>>
         ELSE \E order \in TypeOrders(types) :
                LET combos == Combinations(order, r.val)
                    e      == EnsureOutput(output, Len(combos))
                IN  IF ~IsOk(e)
                    THEN /\ pc' = "aborted"
                         /\ error' = e.exc
                         /\ UNCHANGED <<combinations, target>>
                    ELSE /\ pc' = "fetch"
                         /\ combinations' = combos
                         /\ target' = e.val
                         /\ error' = ""
  /\ UNCHANGED <<types, date_token, today, output, crossword_objs, fetched, attempts,
                 reported, saved, current, flushes, conversion_log, log_file, resolved,
                 call, appended>>

\* download, lines 273 to 296: Crossword(type, date, s=session) for the next
\* combination.  Its __init__ issues the GET, which returns a response or
\* raises (a transport failure); nothing around it catches.
CreateCrossword ==
  /\ pc = "fetch"
  /\ Len(crossword_objs) < Len(combinations)
  /\ LET k     == Len(crossword_objs) + 1
         combo == combinations[k]
     IN  /\ fetched' = Append(fetched, combo)
         /\ \/ /\ crossword_objs' =
                    Append(crossword_objs,
                           [crossword_type |-> combo.crossword_type, date |-> combo.date,
                            state |-> "fetched",
                            destination |-> Destination(target, combo)])
               /\ pc' = IF k = Len(combinations) THEN "process" ELSE "fetch"
               /\ error' = ""
            \/ /\ pc' = "aborted"
               /\ error' = "ConnectionError"
               /\ UNCHANGED crossword_objs
  /\ UNCHANGED <<types, date_token, today, output, combinations, target, attempts,
                 reported, saved, current, flushes, conversion_log, log_file, resolved,
                 call, appended>>

\* What one pass of the loop body's try block does to item `obj`, whose
\* response is `response`: extract_crossword, to_puzzle, save.
TryItem(obj, response, save_ok, log) ==
  Bind(ExtractCrossword(response), LAMBDA ext :
    IF ~IsOk(ext)
    THEN [exc |-> ext.exc, cw |-> [obj EXCEPT !.state = "fetched"], data |-> NoData,
          puzzle |-> NoPuzzle, saved |-> FALSE, log |-> log]
    ELSE Bind(ToPuzzle([crossword_type |-> obj.crossword_type, date |-> obj.date,
                        state |-> "extracted", crossword_data |-> ext.val], log),
              LAMBDA built :
           [exc    |-> IF built.tag = "raise" THEN built.exc
                       ELSE IF save_ok THEN "" ELSE "OSError",
            cw     |-> [obj EXCEPT !.state = "extracted"],
            data   |-> ext.val,
            puzzle |-> built.puzzle,
            saved  |-> built.tag = "ok" /\ save_ok,
            log    |-> built.log]))

\* download, lines 305 to 314: one pass of the processing loop.  The
\* response's status and body are read here for the first time.
ProcessItem ==
  /\ pc = "process"
  /\ Len(attempts) < Len(crossword_objs)
  /\ LET k   == Len(attempts) + 1
         obj == crossword_objs[k]
     IN  \E response \in ServerResponses(obj.crossword_type, obj.date), save_ok \in BOOLEAN :
           \E t \in {TryItem(obj, response, save_ok, conversion_log)} :
               /\ attempts' = Append(attempts, k)
               /\ crossword_objs' = [crossword_objs EXCEPT ![k] = t.cw]
               /\ conversion_log' = t.log
               /\ appended' = appended \o SubSeq(t.log, Len(conversion_log) + 1, Len(t.log))
               /\ saved' = IF t.saved THEN saved \cup {obj.destination} ELSE saved
               /\ current' = [item |-> k, crossword_type |-> obj.crossword_type,
                              date |-> obj.date, response |-> response, data |-> t.data,
                              exc |-> t.exc, puzzle |-> t.puzzle, was_saved |-> t.saved]
               /\ IF t.exc = ""
                  THEN /\ pc' = IF k = Len(crossword_objs) THEN "flush" ELSE "process"
                       /\ UNCHANGED <<reported, error>>
                  ELSE IF Caught(t.exc)
                  THEN /\ reported' = reported \cup {k}
                       /\ pc' = IF k = Len(crossword_objs) THEN "flush" ELSE "process"
                       /\ UNCHANGED error
                  ELSE /\ pc' = "aborted"
                       /\ error' = t.exc
                       /\ UNCHANGED reported
  /\ UNCHANGED <<types, date_token, today, output, combinations, target, fetched,
                 flushes, log_file, resolved, call>>

\* download, line 316: _write_conversion_log(target_root).  The log file is
\* target_root / "encoding-conversions.log": it cannot be opened when
\* target_root is the single output file, and may fail to open otherwise.
WriteLog ==
  /\ pc = "flush"
  /\ \E open_ok \in (IF target.kind = "dir" THEN BOOLEAN ELSE {FALSE}) :
       LET w == WriteConversionLog(conversion_log, log_file, open_ok)
       IN  /\ conversion_log' = w.log
           /\ log_file' = w.file
           /\ flushes' = flushes + 1
           /\ IF w.tag = "ok"
              THEN pc' = "done" /\ UNCHANGED error
              ELSE pc' = "aborted" /\ error' = "OSError"
  /\ UNCHANGED <<types, date_token, today, output, combinations, target, crossword_objs,
                 fetched, attempts, reported, saved, current, resolved, call, appended>>

Next == ResolveCombinations \/ CreateCrossword \/ ProcessItem \/ WriteLog

Spec == Init /\ [][Next]_vars

(***************************************************************************)
(* Single calls of the pure functions, on inputs drawn from bounded sets.  *)
(***************************************************************************)
\* The variables of download's run, when no run is modelled.
NoRun ==
  /\ types = <<>>
  /\ output = [exists |-> TRUE, is_dir |-> TRUE, suffix |-> FALSE]
  /\ combinations = <<>>
  /\ target = [kind |-> "none", predefined |-> FALSE]
  /\ crossword_objs = <<>>
  /\ fetched = <<>>
  /\ attempts = <<>>
  /\ reported = {}
  /\ saved = {}
  /\ error = ""
  /\ today \in Todays

RawSegments == NumericDates \cup {Garbage, Empty}

AllTokens ==
  {NoToken} \cup {SingleToken(r) : r \in NumericDates \cup {Garbage}}
  \cup {RangeToken(a, b) : a \in RawSegments, b \in RawSegments}

InitDates ==
  /\ pc = "call"
  /\ date_token \in AllTokens
  /\ NoRun
  /\ current = NoCurrent
  /\ flushes = 0
  /\ conversion_log = <<>>
  /\ log_file = <<>>
  /\ resolved = Ok(<<>>)
  /\ call = [n |-> 0]
  /\ appended = <<>>

\* resolved_dates = _resolve_dates(date_token)
ResolveDatesCall ==
  /\ pc = "call"
  /\ pc' = "returned"
  /\ resolved' = ResolveDates(date_token, today)
  /\ UNCHANGED <<types, date_token, today, output, combinations, target, crossword_objs,
                 fetched, attempts, reported, saved, current, error, flushes,
                 conversion_log, log_file, call, appended>>

SpecDates == InitDates /\ [][ResolveDatesCall]_vars

\* The longest text sanitized.
MaxLen == 3

Texts == {None} \cup {Str(u) : u \in SeqsUpTo(InputUnits, MaxLen)}

Contexts == {[field |-> "clue", title |-> "t"], [field |-> "notes", title |-> "t"]}

\* A record left in conversion_log by an earlier call.
EarlierRecord == ConversionRecord(<<" ">>, <<>>, [field |-> "notes", title |-> "t"])

InitSanitize ==
  /\ pc = "call"
  /\ date_token = NoToken
  /\ NoRun
  /\ current = NoCurrent
  /\ flushes = 0
  /\ conversion_log \in {<<>>, <<EarlierRecord>>}
  /\ log_file = <<>>
  /\ resolved = Ok(<<>>)
  /\ call = [n |-> 0]
  /\ appended = conversion_log

\* One call _sanitize_for_latin1(text, context).
Sanitize(text, context) ==
  \E r \in {SanitizeForLatin1(text, context, conversion_log)} :
    /\ call' = [n |-> call.n + 1, text |-> text, context |-> context, ret |-> r.ret]
    /\ conversion_log' = r.log
    /\ appended' = appended \o SubSeq(r.log, Len(conversion_log) + 1, Len(r.log))

SanitizeCall ==
  /\ pc = "call"
  /\ pc' = "returned"
  /\ \E text \in Texts, context \in Contexts : Sanitize(text, context)
  /\ UNCHANGED <<types, date_token, today, output, combinations, target, crossword_objs,
                 fetched, attempts, reported, saved, current, error, flushes, log_file,
                 resolved>>

SpecSanitize == InitSanitize /\ [][SanitizeCall]_vars

(***************************************************************************)
(* The conversion log under any interleaving of sanitizations and flushes. *)
(***************************************************************************)
\* The most sanitizations, and the most flushes, of one behaviour.
MaxCalls == 3

MaxFlushes == 3

LogTexts == {None, Str(<<"a">>), Str(<<" ", "a">>), Str(<<"U+00E9">>)}

InitLog ==
  /\ pc = "log"
  /\ date_token = NoToken
  /\ NoRun
  /\ current = NoCurrent
  /\ flushes = 0
  /\ conversion_log = <<>>
  /\ log_file = <<>>
  /\ resolved = Ok(<<>>)
  /\ call = [n |-> 0]
  /\ appended = <<>>

LogSanitize ==
  /\ pc = "log"
  /\ call.n < MaxCalls
  /\ \E text \in LogTexts : Sanitize(text, [field |-> "clue", title |-> "t"])
  /\ UNCHANGED <<pc, types, date_token, today, output, combinations, target,
                 crossword_objs, fetched, attempts, reported, saved, current, error,
                 flushes, log_file, resolved>>

\* One call _write_conversion_log(output_path); when open() raises, the
\* exception leaves the accumulator and the file as they were.
LogFlush ==
  /\ pc = "log"
  /\ flushes < MaxFlushes
  /\ \E open_ok \in BOOLEAN :
       \E w \in {WriteConversionLog(conversion_log, log_file, open_ok)} :
         /\ conversion_log' = w.log
         /\ log_file' = w.file
         /\ flushes' = flushes + 1
  /\ UNCHANGED <<pc, types, date_token, today, output, combinations, target,
                 crossword_objs, fetched, attempts, reported, saved, current, error,
                 resolved, call, appended>>

NextLog == LogSanitize \/ LogFlush

SpecLog == InitLog /\ [][NextLog]_vars

(***************************************************************************)
(* Single calls of to_puzzle, on records drawn from bounded sets.          *)
(***************************************************************************)
\* The widest grid row, and the most grid rows.
MaxWidth == 3

MaxHeight == 2

Cells == {"A", "."}

Grids == SeqsUpTo(SeqsUpTo(Cells, MaxWidth), MaxHeight)

\* The most clues of one direction, and the largest clue position.
MaxClues == 2

MaxPosition == 2

ClueRecords == [position : 1..MaxPosition, question : {Str(<<"a">>), Str(<<"U+00E9">>)}]

ClueLists == SeqsUpTo(ClueRecords, MaxClues)

RequestDate == ToOrdinal(BaseYear, 2, 1)

\* The loop's cw before to_puzzle, holding the record `rec`.
Extracted(t, d, rec) ==
  [item |-> 0, crossword_type |-> t, date |-> d,
   response |-> [status |-> 200, body |-> "record", rec |-> rec],
   data |-> [none |-> FALSE, rec |-> rec], exc |-> "", puzzle |-> NoPuzzle,
   was_saved |-> FALSE]

InitCall ==
  /\ pc = "call"
  /\ date_token = NoToken
  /\ NoRun
  /\ flushes = 0
  /\ conversion_log = <<>>
  /\ log_file = <<>>
  /\ resolved = Ok(<<>>)
  /\ call = [n |-> 0]
  /\ appended = <<>>

InitGrid ==
  /\ InitCall
  /\ \E g \in Grids, t \in {MINI, QUICK} :
       current = Extracted(t, RequestDate, [SampleRecord(t, RequestDate) EXCEPT !.grid = g])

InitClues ==
  /\ InitCall
  /\ \E a \in ClueLists, d \in ClueLists :
       current = Extracted(MINI, RequestDate,
                           [SampleRecord(MINI, RequestDate) EXCEPT
                              !.clues = [across |-> a, down |-> d]])

\* puzzle = cw.to_puzzle()
ToPuzzleCall ==
  /\ pc = "call"
  /\ pc' = "returned"
  /\ \E built \in {ToPuzzle([crossword_type |-> current.crossword_type,
                            date |-> current.date, state |-> "extracted",
                            crossword_data |-> current.data], conversion_log)} :
       /\ current' = [current EXCEPT !.exc = built.exc, !.puzzle = built.puzzle]
       /\ conversion_log' = built.log
       /\ appended' = appended \o SubSeq(built.log, Len(conversion_log) + 1, Len(built.log))
  /\ UNCHANGED <<types, date_token, today, output, combinations, target, crossword_objs,
                 fetched, attempts, reported, saved, error, flushes, log_file, resolved,
                 call>>

SpecGrid == InitGrid /\ [][ToPuzzleCall]_vars

SpecClues == InitClues /\ [][ToPuzzleCall]_vars

(***************************************************************************)
(* Properties.                                                             *)
(***************************************************************************)
Terminated == pc \in {"done", "aborted"}

InOrder(seq) == seq = [k \in 1..Len(seq) |-> k]

\* C1: in the processing loop an exception raised by extract_crossword,
\* to_puzzle or save for one item is reported and ends only that item's
\* pass: the items are attempted once each, in order, the loop goes on
\* while items remain, and every run that began processing ends having
\* attempted every item and having called the final log flush once.
C1_ItemFailuresIsolated ==
  /\ InOrder(attempts)
  /\ pc = "process" => Len(attempts) < Len(crossword_objs)
  /\ (attempts # <<>> /\ Len(attempts) < Len(crossword_objs)) => pc = "process"
  /\ (current.item > 0 /\ current.exc # "") => current.item \in reported
  /\ (attempts # <<>> /\ pc # "process") =>
        /\ Len(attempts) = Len(combinations)
        /\ pc = "flush" \/ flushes = 1
  /\ pc = "flush" => flushes = 0

\* C1's case: the first item failed, a later item was saved, the run ended.
C1_Witness ==
  /\ pc = "done"
  /\ 1 \in reported
  /\ Len(attempts) >= 2
  /\ Len(attempts) = Len(combinations)
  /\ saved # {}
  /\ flushes = 1

\* C2: a fetch error of one item (a non-success status, or a transport
\* failure of the GET) never ends the run: every run that resolved its
\* combinations ends with every combination fetched and attempted.
C2_FetchErrorsIsolated ==
  (Terminated /\ error \notin {"BadParameter", "ParserError", "FileExistsError"}) =>
     /\ error # "ConnectionError"
     /\ Len(fetched) = Len(combinations)
     /\ Len(attempts) = Len(combinations)

ChosenTypes == IF types = <<>> THEN {CRYPTIC} ELSE Range(types)

RequestedCombinations ==
  {[crossword_type |-> t, date |-> d] :
     t \in ChosenTypes, d \in Range(ResolveDates(date_token, today).val)}

\* C3: no combination is fetched twice; once the first item's processing
\* has begun every requested (type, date) combination has been fetched
\* exactly once; the items are processed one at a time in list order, item
\* k being the k-th combination fetched.
C3_FetchesUpFront ==
  /\ \A i, j \in 1..Len(fetched) : i # j => fetched[i] # fetched[j]
  /\ attempts # <<>> =>
        /\ Range(fetched) = RequestedCombinations
        /\ Len(fetched) = Cardinality(RequestedCombinations)
  /\ InOrder(attempts)
  /\ current.item > 0 =>
        /\ current.item = Len(attempts)
        /\ fetched[current.item] =
             [crossword_type |-> current.crossword_type, date |-> current.date]

\* C3's case: a type named twice, fetched once per date, both items processed.
C3_Witness ==
  /\ Len(types) = 2
  /\ types[1] = types[2]
  /\ Len(fetched) = 2
  /\ Len(attempts) = 2

ParameterErrors == {"BadParameter", "ParserError"}

\* C4: a run that ends with a parameter error (an unreadable date, a range
\* with an empty end, a range inverted under both orders, an existing
\* non-directory output for several combinations) has issued no fetch and
\* processed no item, and takes no further step.
C4_ParameterErrorBeforeFetch ==
  error \in ParameterErrors =>
     /\ pc = "aborted"
     /\ fetched = <<>>
     /\ crossword_objs = <<>>
     /\ attempts = <<>>
     /\ saved = {}
     /\ ~ENABLED Next

\* C4's case: the dates resolve, and _ensure_output rejects the output path.
C4_Witness ==
  /\ error = "BadParameter"
  /\ IsOk(ResolveDates(date_token, today))
  /\ output.exists /\ ~output.is_dir

\* C6 as stated: a record whose date matches and whose type equals the
\* requested type up to letter case passes the checks of to_puzzle.
C6_CaseInsensitiveTypeCheck ==
  (current.item > 0 /\ current.response.status = 200
     /\ current.response.body = "record"
     /\ current.data.rec.date = IsoFormat(current.date)
     /\ Upper(current.data.rec.type) = Upper(current.crossword_type))
  => current.exc # "AssertionError"

CurrentHasRecord ==
  current.item > 0 /\ current.response.status = 200 /\ current.response.body = "record"

CurrentMismatch ==
  \/ current.data.rec.date # IsoFormat(current.date)
  \/ current.data.rec.type # Upper(current.crossword_type)

\* C6, amended: to_puzzle builds a puzzle only if the record's date is the
\* requested date in ISO form and the record's type is, letter for letter,
\* the requested type's name in upper case; otherwise the item fails with
\* an AssertionError, is reported, builds and saves nothing, and appends
\* no conversion record.
C6_ExactTypeCheck ==
  /\ [](CurrentHasRecord =>
          /\ current.puzzle.built => ~CurrentMismatch
          /\ CurrentMismatch =>
               /\ current.exc = "AssertionError"
               /\ ~current.puzzle.built
               /\ ~current.was_saved
               /\ current.item \in reported)
  /\ [][(attempts' # attempts /\ CurrentHasRecord' /\ CurrentMismatch') =>
          (conversion_log' = conversion_log /\ saved' = saved)]_vars

\* C6's case: the record's type is the requested type in lower case, and
\* the item failed the check.
C6_Witness ==
  /\ CurrentHasRecord
  /\ current.data.rec.date = IsoFormat(current.date)
  /\ current.data.rec.type = current.crossword_type
  /\ current.exc = "AssertionError"
  /\ current.item \in reported

StartDate(day_first) == ParseSingleDate(date_token.start, day_first)

EndDate(day_first) == ParseSingleDate(date_token.end, day_first)

\* Both ends parse under the order day_first and the end is not before the start.
Ordered(day_first) ==
  /\ IsOk(StartDate(day_first))
  /\ IsOk(EndDate(day_first))
  /\ EndDate(day_first).val >= StartDate(day_first).val

\* The consecutive dates from the start to the end, both parsed under day_first.
IsSpanOf(dates, day_first) ==
  /\ Len(dates) = (EndDate(day_first).val - StartDate(day_first).val) + 1
  /\ dates[1] = StartDate(day_first).val
  /\ dates[Len(dates)] = EndDate(day_first).val
  /\ \A k \in 1..(Len(dates) - 1) : dates[k + 1] = dates[k] + 1

\* C5: for a range with both ends non-empty and readable, _resolve_dates
\* returns the consecutive dates of the day-first pair when that pair is
\* ordered, else those of the month-first pair when that pair is ordered,
\* else fails with a parameter error; both ends of a result come from the
\* same order.
C5_RangeResolution ==
  (pc = "returned" /\ date_token.kind = "range"
     /\ date_token.start # Empty /\ date_token.end # Empty
     /\ IsOk(StartDate(TRUE)) /\ IsOk(EndDate(TRUE)))
  => /\ Ordered(TRUE) => (IsOk(resolved) /\ IsSpanOf(resolved.val, TRUE))
     /\ (~Ordered(TRUE) /\ Ordered(FALSE)) => (IsOk(resolved) /\ IsSpanOf(resolved.val, FALSE))
     /\ (~Ordered(TRUE) /\ ~Ordered(FALSE)) => resolved = Raise("BadParameter")
     /\ IsOk(resolved) => \E day_first \in BOOLEAN : IsSpanOf(resolved.val, day_first)

\* C5's case: the range is inverted day first and ordered month first, and
\* the result spans more than one day.
C5_Witness ==
  /\ pc = "returned"
  /\ date_token.kind = "range"
  /\ IsOk(StartDate(TRUE)) /\ IsOk(EndDate(TRUE))
  /\ ~Ordered(TRUE)
  /\ Ordered(FALSE)
  /\ IsOk(resolved)
  /\ Len(resolved.val) > 1

RECURSIVE Flatten(_)
Flatten(blocks) == IF blocks = <<>> THEN <<>> ELSE Head(blocks) \o Flatten(Tail(blocks))

Rows == current.data.rec.grid

\* C8: every puzzle to_puzzle returns has rows of one length, that length
\* as its width, the number of rows as its height, a solution and a fill
\* of width*height cells, and a fill that keeps "." and has "-" elsewhere;
\* a record whose rows differ in length builds no puzzle.
C8_GridConsistent ==
  pc = "returned" =>
     /\ current.puzzle.built =>
          /\ \A r \in 1..Len(Rows) : Len(Rows[r]) = current.puzzle.width
          /\ current.puzzle.height = Len(Rows)
          /\ Len(current.puzzle.solution) = current.puzzle.width * current.puzzle.height
          /\ Len(current.puzzle.fill) = Len(current.puzzle.solution)
          /\ \A k \in 1..Len(current.puzzle.fill) :
               current.puzzle.fill[k] = (IF current.puzzle.solution[k] = "." THEN "." ELSE "-")
     /\ (\E r1, r2 \in 1..Len(Rows) : Len(Rows[r1]) # Len(Rows[r2])) => ~current.puzzle.built

\* C9 as stated: sanitizing a non-empty string of ASCII characters with no
\* markup and no emoji returns it unchanged and appends no record.
C9_AsciiUnchanged ==
  [][(call'.n # call.n /\ Truthy(call'.text) /\ Range(call'.text.s) \subseteq AsciiUnits)
       => (call'.ret = call'.text /\ conversion_log' = conversion_log)]_vars

\* Plain text that html2text and strip leave alone: ASCII with no markup
\* and no emoji, no whitespace at either end, no two whitespace characters
\* in a row, and no opening dash that Markdown would read as a list item.
Plain(s) ==
  /\ s # <<>>
  /\ Range(s) \subseteq AsciiUnits
  /\ s[1] \notin Whitespace
  /\ s[Len(s)] \notin Whitespace
  /\ \A k \in 1..(Len(s) - 1) : ~(s[k] \in Whitespace /\ s[k + 1] \in Whitespace)
  /\ ~(Len(s) >= 2 /\ s[1] = "-" /\ s[2] \in (Whitespace \cup {"-"}))

\* C9, amended: sanitizing a plain string (see Plain) returns it unchanged
\* and appends no record; an empty or None input is returned as it is with
\* no record; any other call appends exactly one record (original,
\* sanitized, context) when the returned string differs from the input and
\* none when it does not.
C9_PlainUnchanged ==
  [][call'.n # call.n =>
       /\ ~Truthy(call'.text) =>
            (call'.ret = call'.text /\ conversion_log' = conversion_log)
       /\ (Truthy(call'.text) /\ call'.ret.s = call'.text.s) =>
            conversion_log' = conversion_log
       /\ (Truthy(call'.text) /\ call'.ret.s # call'.text.s) =>
            conversion_log' = Append(conversion_log,
                                     ConversionRecord(call'.text.s, call'.ret.s,
                                                      call'.context))
       /\ (Truthy(call'.text) /\ Plain(call'.text.s)) =>
            (call'.ret = call'.text /\ conversion_log' = conversion_log)]_vars

\* C9's case: a plain string with an interior space and a dash came back
\* unchanged, after an earlier record, and the log kept its one record.
C9_Witness ==
  /\ pc = "returned"
  /\ call.text = Str(<<"a", " ", "-">>)
  /\ call.ret = call.text
  /\ conversion_log = <<EarlierRecord>>

AllClues == current.data.rec.clues.across \o current.data.rec.clues.down

\* Clue i of the input comes before clue j in the output.
Before(i, j) ==
  \/ AllClues[i].position < AllClues[j].position
  \/ (AllClues[i].position = AllClues[j].position /\ i < j)

Rank(i) == 1 + Cardinality({j \in 1..Len(AllClues) : Before(j, i)})

\* C10: the clues of a built puzzle are the sanitized questions of the
\* across and down clues, each once, by ascending position; among clues of
\* one position an across clue precedes a down clue and clues of one
\* direction keep their input order.
C10_CluesStableByPosition ==
  (pc = "returned" /\ current.puzzle.built) =>
     /\ Len(current.puzzle.clues) = Len(AllClues)
     /\ \A i \in 1..Len(AllClues) :
          current.puzzle.clues[Rank(i)] =
            SanitizeForLatin1(AllClues[i].question, "", <<>>).ret

\* C10's case: an across clue and a down clue share a position and differ
\* in their question, and the down list is not in ascending order.
C10_Witness ==
  /\ pc = "returned"
  /\ current.puzzle.built
  /\ \E i \in 1..Len(current.data.rec.clues.across),
        j \in 1..Len(current.data.rec.clues.down) :
       /\ current.data.rec.clues.across[i].position = current.data.rec.clues.down[j].position
       /\ current.data.rec.clues.across[i].question # current.data.rec.clues.down[j].question
  /\ Len(current.data.rec.clues.down) = 2
  /\ current.data.rec.clues.down[1].position > current.data.rec.clues.down[2].position

====
